---- MODULE Spec2Model ----
(***************************************************************************)
(* Mortgage rate tracker: the batch scraper (loan_rate_agent.py), the      *)
(* pattern synthesizer (create_bank_config.py) and the dashboard add-bank  *)
(* flow (app.py).                                                          *)
(*                                                                         *)
(* Page text is modelled as a sequence of tokens separated by a line       *)
(* break: a keyword phrase, a percentage written "d.d%", a bare loan term  *)
(* numeral, a run of plain words, or filler containing punctuation.  The   *)
(* regular expressions of the code are evaluated on that sequence with     *)
(* their quantifier limits counted in characters.  Text that the code      *)
(* formats or converts (numbers, rate strings) is a sequence of            *)
(* one-character strings.                                                  *)
(***************************************************************************)
EXTENDS FiniteSets, Integers, Sequences, TLC

VARIABLES
    \* ---- loan_rate_agent.py: main / scrape_rates / save_to_sheet ----
    configs,      \* the list handed to scrape_rates
    pc,           \* position of the run
    i,            \* index of the config the for loop is at
    j,            \* index of the (label, pattern) item the inner loop is at
    page,         \* the page loaded by page.goto for the current config
    pageClosed,   \* page.close() already called on the current page
    target_text,  \* scrape_rates local
    results,      \* scrape_rates local, the returned list
    timestamp,    \* scrape_rates local
    clock,        \* wall clock read by datetime.now()
    rates,        \* the "Rates" worksheet
    cause,        \* history: per config, the step that ended its processing
    chosen,       \* history: index in page.frames of the text chosen as target_text
    escaped,      \* history: the call whose exception left scrape_rates
    \* ---- create_bank_config.py: analyze_url ----
    spage,        \* the page analyze_url loads
    sout,         \* what analyze_url returned
    \* ---- app.py add-bank form, create_bank_config.py generate_config ----
    sheetConfigs, \* the "Configs" worksheet
    fileConfigs,  \* bank_configs.json
    lastAdd,      \* history: the last add-bank operation and its outcome
    forms         \* per dashboard session, the add-bank submission under way

vars == <<configs, pc, i, j, page, pageClosed, target_text, results, timestamp,
          clock, rates, cause, chosen, escaped,
          spage, sout, sheetConfigs, fileConfigs, lastAdd, forms>>

scrapeVars == <<configs, pc, i, j, page, pageClosed, target_text, results,
                timestamp, clock, rates, cause, chosen, escaped>>
synthVars == <<spage, sout>>
storeVars == <<sheetConfigs, fileConfigs, lastAdd, forms>>

-----------------------------------------------------------------------------
(* Numbers as text *)

Digits == <<"0", "1", "2", "3", "4", "5", "6", "7", "8", "9">>

DigitVal(c) == (CHOOSE d \in 1..10 : Digits[d] = c) - 1

RECURSIVE NatOf(_)
NatOf(ds) ==
    IF ds = <<>> THEN 0
    ELSE NatOf(SubSeq(ds, 1, Len(ds) - 1)) * 10 + DigitVal(ds[Len(ds)])

RECURSIVE Pow10(_)
Pow10(n) == IF n = 0 THEN 1 ELSE 10 * Pow10(n - 1)

RECURSIVE NatStr(_)
NatStr(n) == IF n < 10 THEN <<Digits[n + 1]>>
             ELSE NatStr(n \div 10) \o <<Digits[(n % 10) + 1]>>

\* float(s) for s = "<digits>.<digits>": the value num / 10^exp
float(s) ==
    LET dot == CHOOSE k \in 1..Len(s) : s[k] = "."
        ip  == SubSeq(s, 1, dot - 1)
        fp  == SubSeq(s, dot + 1, Len(s))
    IN  [num |-> NatOf(ip \o fp), exp |-> Len(fp)]

FloatLess(a, b) == a.num * Pow10(b.exp) < b.num * Pow10(a.exp)
FloatEq(a, b) == a.num * Pow10(b.exp) = b.num * Pow10(a.exp)

RECURSIVE Normal(_)
Normal(x) == IF x.exp > 1 /\ x.num % 10 = 0
             THEN Normal([num |-> x.num \div 10, exp |-> x.exp - 1])
             ELSE x

RECURSIVE ZeroPad(_, _)
ZeroPad(ds, n) == IF Len(ds) >= n THEN ds ELSE ZeroPad(<<"0">> \o ds, n)

\* str(x) of a float, as an f-string renders it: shortest decimal, at least
\* one fractional digit
FloatStr(x) ==
    LET y == Normal(x)
        p == Pow10(y.exp)
    IN  NatStr(y.num \div p) \o <<".">> \o ZeroPad(NatStr(y.num % p), y.exp)

Percent(s) == s \o <<"%">>

ErrorStr == <<"E", "r", "r", "o", "r">>

-----------------------------------------------------------------------------
(* Strings as sequences of characters *)

UpperCase ==
    <<"A", "B", "C", "D", "E", "F", "G", "H", "I", "J", "K", "L", "M",
      "N", "O", "P", "Q", "R", "S", "T", "U", "V", "W", "X", "Y", "Z">>
LowerCase ==
    <<"a", "b", "c", "d", "e", "f", "g", "h", "i", "j", "k", "l", "m",
      "n", "o", "p", "q", "r", "s", "t", "u", "v", "w", "x", "y", "z">>

IsUpper(c) == \E n \in 1..26 : UpperCase[n] = c
IsLower(c) == \E n \in 1..26 : LowerCase[n] = c
IsLetter(c) == IsUpper(c) \/ IsLower(c)
IsDigit(c) == \E n \in 1..10 : Digits[n] = c
IsSpace(c) == c \in {" ", "\n"}

ToLower(c) ==
    IF IsUpper(c) THEN LowerCase[CHOOSE n \in 1..26 : UpperCase[n] = c] ELSE c
ToUpper(c) ==
    IF IsLower(c) THEN UpperCase[CHOOSE n \in 1..26 : LowerCase[n] = c] ELSE c

\* str.lower(), str.upper()
lower(str) == [k \in 1..Len(str) |-> ToLower(str[k])]
upper(str) == [k \in 1..Len(str) |-> ToUpper(str[k])]

\* str.title(): a letter that follows a letter is lowered, any other letter
\* is raised
title(str) ==
    [k \in 1..Len(str) |->
        IF k > 1 /\ IsLetter(str[k - 1]) THEN ToLower(str[k])
        ELSE ToUpper(str[k])]

\* sub occurs in str at position k
At(str, sub, k) ==
    k + Len(sub) - 1 <= Len(str) /\ SubSeq(str, k, k + Len(sub) - 1) = sub

\* `sub in str`
In(sub, str) == \E k \in 1..(Len(str) + 1) : At(str, sub, k)

\* str.split(c)[0]
RECURSIVE First(_, _)
First(str, c) ==
    IF str = <<>> \/ str[1] = c THEN <<>>
    ELSE <<str[1]>> \o First(Tail(str), c)

\* str.strip()
RECURSIVE strip(_)
strip(str) ==
    IF str = <<>> THEN str
    ELSE IF IsSpace(str[1]) THEN strip(Tail(str))
    ELSE IF IsSpace(str[Len(str)]) THEN strip(SubSeq(str, 1, Len(str) - 1))
    ELSE str

\* str.replace(old, ""): every occurrence, left to right
RECURSIVE replace(_, _)
replace(str, old) ==
    IF str = <<>> THEN str
    ELSE IF At(str, old, 1)
    THEN replace(SubSeq(str, Len(old) + 1, Len(str)), old)
    ELSE <<str[1]>> \o replace(Tail(str), old)

RECURSIVE Repeat(_, _)
Repeat(c, n) == IF n = 0 THEN <<>> ELSE <<c>> \o Repeat(c, n - 1)

-----------------------------------------------------------------------------
(* Page text *)

Term(s, form) == [k |-> "term", s |-> s, d |-> <<form>>, n |-> Len(s)]
Pct(d) == [k |-> "pct", s |-> "", d |-> d, n |-> Len(d) + 1]
Years(y) == [k |-> "years", s |-> y, d |-> <<>>, n |-> Len(y)]
Words(n) == [k |-> "words", s |-> "", d |-> <<>>, n |-> n]
Gap(n) == [k |-> "gap", s |-> "", d |-> <<>>, n |-> n]
\* a phrase of letters and spaces, such as a lender's name
Name(d) == [k |-> "name", s |-> "", d |-> d, n |-> Len(d)]

\* the characters of a keyword phrase
Spell(s) ==
    CASE s = "30 Year Fixed" ->
            <<"3", "0", " ", "Y", "e", "a", "r", " ", "F", "i", "x", "e",
              "d">>
      [] s = "Fixed 30" ->
            <<"F", "i", "x", "e", "d", " ", "3", "0">>
      [] s = "30-Year Fixed" ->
            <<"3", "0", "-", "Y", "e", "a", "r", " ", "F", "i", "x", "e",
              "d">>
      [] s = "Conventional 30" ->
            <<"C", "o", "n", "v", "e", "n", "t", "i", "o", "n", "a", "l",
              " ", "3", "0">>
      [] s = "Conforming 30" ->
            <<"C", "o", "n", "f", "o", "r", "m", "i", "n", "g", " ", "3",
              "0">>
      [] s = "15 Year Fixed" ->
            <<"1", "5", " ", "Y", "e", "a", "r", " ", "F", "i", "x", "e",
              "d">>
      [] s = "Fixed 15" ->
            <<"F", "i", "x", "e", "d", " ", "1", "5">>
      [] s = "15-Year Fixed" ->
            <<"1", "5", "-", "Y", "e", "a", "r", " ", "F", "i", "x", "e",
              "d">>
      [] s = "Conventional 15" ->
            <<"C", "o", "n", "v", "e", "n", "t", "i", "o", "n", "a", "l",
              " ", "1", "5">>
      [] s = "Conforming 15" ->
            <<"C", "o", "n", "f", "o", "r", "m", "i", "n", "g", " ", "1",
              "5">>

\* the characters of a token.  A keyword phrase is written as in the
\* keyword table ("exact"), in capitals ("upper"), or with line breaks for
\* its spaces ("spaced"); plain words are letters, filler is punctuation.
Chars(tok) ==
    CASE tok.k = "term" ->
            IF tok.d = <<"upper">> THEN upper(Spell(tok.s))
            ELSE IF tok.d = <<"spaced">>
            THEN [k \in 1..Len(Spell(tok.s)) |->
                     IF Spell(tok.s)[k] = " " THEN "\n" ELSE Spell(tok.s)[k]]
            ELSE Spell(tok.s)
      [] tok.k = "pct" -> Percent(tok.d)
      [] tok.k = "years" -> IF tok.s = "30" THEN <<"3", "0">> ELSE <<"1", "5">>
      [] tok.k = "words" -> Repeat("a", tok.n)
      [] tok.k = "name" -> tok.d
      [] OTHER -> Repeat("-", tok.n)

\* the text as inner_text returns it: the tokens, one per line
RECURSIVE Render(_)
Render(text) ==
    IF text = <<>> THEN <<>>
    ELSE IF Len(text) = 1 THEN Chars(text[1])
    ELSE Chars(text[1]) \o <<"\n">> \o Render(Tail(text))

\* characters between the end of token a and the start of token b (a < b)
RECURSIVE Dist(_, _, _)
Dist(text, a, b) ==
    IF b = a + 1 THEN 1 ELSE Dist(text, a, b - 1) + text[b - 1].n + 1

PctsAfter(text, a) == {b \in (a + 1)..Len(text) : text[b].k = "pct"}

Min(S) == CHOOSE x \in S : \A y \in S : x <= y

\* index of the next percentage after position a, 0 if none
NextPct(text, a) ==
    IF PctsAfter(text, a) = {} THEN 0 ELSE Min(PctsAfter(text, a))

\* `needle in haystack` for a keyword phrase: literal, case-sensitive
Contains(text, needle) ==
    \E a \in 1..Len(text) :
        text[a].k = "term" /\ text[a].s = needle /\ text[a].d = <<"exact">>

\* `needle.lower() in haystack.lower()`
ContainsLower(text, needle) ==
    \E a \in 1..Len(text) :
        text[a].k = "term" /\ text[a].s = needle /\ text[a].d # <<"spaced">>

-----------------------------------------------------------------------------
(* Stored patterns and re.search *)

\* A stored pattern is the text of a regular expression.  The model keeps
\* the shape of the expression: re names the template, arg the keyword
\* phrase or the numeral the template was built around.
\*   kw2     term.*?(n)\s*%.*?(n)\s*%
\*   kw3     term.*?(n)\s*%.*?(?:n\s*%).*?(n)\s*%
\*   tbl2    (?<!\d)Y\s+(?:[a-zA-Z\s]+\s+)?(n)%\s+(n)%
\*   tbl3    (?<!\d)Y\s+(?:[a-zA-Z\s]+\s+)?(n)%\s+(?:n%)\s+(n)%
\*   tblpts  (?<!\d)Y\s+(?:[a-zA-Z\s]+\s+)?(?:0\.000%|n%)\s+(n)%\s+(n)%
\*   one     term.*?(n)\s*%          (a hand-edited pattern with one group)
\*   invalid an expression re cannot compile
Pattern(re, arg) == [re |-> re, arg |-> arg]

NoMatch == [res |-> "nomatch", g1 |-> <<>>, g2 |-> <<>>, g3 |-> <<>>, at |-> 0]
Raises == [res |-> "raise", g1 |-> <<>>, g2 |-> <<>>, g3 |-> <<>>, at |-> 0]
Match(a, g1, g2, g3) ==
    [res |-> "match", g1 |-> g1, g2 |-> g2, g3 |-> g3, at |-> a]

\* positions where the phrase occurs, ignoring case and with any white
\* space, or none, for its spaces (the stored term has \s* for each space)
TermAt(text, term) ==
    {a \in 1..Len(text) : text[a].k = "term" /\ text[a].s = term}

\* positions where the phrase occurs as written, ignoring case
\* (re.escape(term))
LiteralAt(text, term) ==
    {a \in TermAt(text, term) : text[a].d # <<"spaced">>}

\* the k-th percentage after position a (0 if there is none)
RECURSIVE NthPct(_, _, _)
NthPct(text, a, k) ==
    IF k = 0 THEN a
    ELSE IF NextPct(text, a) = 0 THEN 0
    ELSE NthPct(text, NextPct(text, a), k - 1)

\* term followed, at any distance, by `count` percentages; the groups are
\* the percentages numbered first and second
SearchKeyword(text, term, count, first, second) ==
    LET starts == {a \in TermAt(text, term) : NthPct(text, a, count) # 0}
    IN  IF starts = {} THEN NoMatch
        ELSE LET a == Min(starts)
             IN  Match(a, text[NthPct(text, a, first)].d,
                       text[NthPct(text, a, second)].d, <<>>)

\* phrases that end with the numeral, and phrases that start with the
\* numeral followed by a space and letters only
NumeralLast(y) ==
    IF y = "30" THEN {"Fixed 30", "Conventional 30", "Conforming 30"}
    ELSE {"Fixed 15", "Conventional 15", "Conforming 15"}
NumeralFirst(y) == IF y = "30" THEN {"30 Year Fixed"} ELSE {"15 Year Fixed"}

HasNumeral(tok, y) ==
    \/ tok.k = "years" /\ tok.s = y
    \/ tok.k = "term" /\ tok.s \in NumeralLast(y) \cup NumeralFirst(y)

\* first token after a that is not made of letters and spaces only
RECURSIVE SkipWords(_, _)
SkipWords(text, a) ==
    IF a + 1 <= Len(text) /\ text[a + 1].k \in {"words", "name"}
    THEN SkipWords(text, a + 1) ELSE a + 1

\* positions of a table row: the numeral, optional words, then `count`
\* percentages separated by white space only
RowAt(text, y, count) ==
    {a \in 1..Len(text) :
        /\ HasNumeral(text[a], y)
        /\ SkipWords(text, a) + count - 1 <= Len(text)
        /\ \A k \in 0..(count - 1) : text[SkipWords(text, a) + k].k = "pct"}

SearchTable(text, y, count, first, second) ==
    IF RowAt(text, y, count) = {} THEN NoMatch
    ELSE LET a == Min(RowAt(text, y, count))
             p == SkipWords(text, a)
         IN  Match(a, text[p + first - 1].d, text[p + second - 1].d, <<>>)

\* re.search(pattern, text, re.DOTALL | re.IGNORECASE) followed by
\* match.group(1), match.group(2)
search(pattern, text) ==
    CASE pattern.re = "kw2" -> SearchKeyword(text, pattern.arg, 2, 1, 2)
      [] pattern.re = "kw3" -> SearchKeyword(text, pattern.arg, 3, 1, 3)
      [] pattern.re = "tbl2" -> SearchTable(text, pattern.arg, 2, 1, 2)
      [] pattern.re = "tbl3" -> SearchTable(text, pattern.arg, 3, 1, 3)
      [] pattern.re = "tblpts" -> SearchTable(text, pattern.arg, 3, 2, 3)
      [] pattern.re = "one" ->
            IF SearchKeyword(text, pattern.arg, 1, 1, 1) = NoMatch
            THEN NoMatch ELSE Raises
      [] OTHER -> Raises

-----------------------------------------------------------------------------
(* loan_rate_agent.py: the batch run *)

MaxSources == 3

Config(name, url, iframe_check, patterns) ==
    [name |-> name, url |-> url, iframe_check |-> iframe_check,
     patterns |-> patterns]

Item(label, pattern) == [label |-> label, pattern |-> pattern]

Frame(ok, text) == [ok |-> ok, text |-> text]

\* page.frames; the first entry is the main frame, whose body text is what
\* page.inner_text("body") returns
\* title is what page.title() returns
Page(frames) == [frames |-> frames, title |-> <<>>]

Titled(str, p) == [p EXCEPT !.title = str]

\* page.goto raised: there is no page content
NoPage == Page(<<>>)

RatesA ==
    <<Term("30 Year Fixed", "exact"),
      Pct(<<"6", ".", "1", "2", "5">>), Pct(<<"6", ".", "2", "5", "0">>),
      Term("15 Year Fixed", "exact"),
      Pct(<<"5", ".", "5", "0", "0">>), Pct(<<"5", ".", "6", "2", "5">>)>>

RatesB ==
    <<Term("30 Year Fixed", "exact"),
      Pct(<<"7", ".", "0", "0", "0">>), Pct(<<"7", ".", "1", "2", "5">>)>>

RatesUpper ==
    <<Term("30 Year Fixed", "upper"),
      Pct(<<"7", ".", "5", "0", "0">>), Pct(<<"7", ".", "6", "2", "5">>)>>

Rates15 ==
    <<Term("15 Year Fixed", "exact"),
      Pct(<<"5", ".", "5", "0", "0">>), Pct(<<"5", ".", "6", "2", "5">>)>>

Plain == <<Words(12)>>

\* the pages a lender's URL may serve on the day of the run
Pages ==
    {Page(<<Frame(TRUE, RatesA)>>),
     Page(<<Frame(TRUE, Plain), Frame(FALSE, <<>>), Frame(TRUE, RatesB),
            Frame(TRUE, RatesA)>>),
     Page(<<Frame(TRUE, RatesA), Frame(TRUE, RatesB)>>),
     Page(<<Frame(TRUE, Plain), Frame(TRUE, RatesUpper)>>),
     Page(<<Frame(TRUE, Rates15)>>),
     Page(<<Frame(FALSE, <<>>)>>)}

\* rows of the "Configs" worksheet as load_configs_from_sheet returns them
\* (an empty iframe_check cell is read as None, written "" here)
ConfigPool ==
    {Config("A", "a", "",
            <<Item("Fixed 30", Pattern("kw2", "30 Year Fixed")),
              Item("Fixed 15", Pattern("kw2", "15 Year Fixed"))>>),
     Config("B", "b", "30 Year Fixed",
            <<Item("Fixed 30", Pattern("kw2", "30 Year Fixed")),
              Item("Fixed 15", Pattern("one", "15 Year Fixed"))>>),
     Config("C", "c", "",
            <<Item("Fixed 30", Pattern("kw2", "30 Year Fixed")),
              Item("Fixed 15", Pattern("invalid", ""))>>)}

ConfigLists ==
    UNION {[1..n -> ConfigPool] : n \in 1..MaxSources}

RowNow(date, name, type, rate, apr, src, pat) ==
    [Date |-> clock, BankName |-> name, LoanType |-> type, Rate |-> rate,
     APR |-> apr, src |-> src, pat |-> pat]

\* a row of results; src and pat are history (the config and the item that
\* produced the row, pat = 0 for the row of the except clause)
Row(date, name, type, rate, apr, src, pat) ==
    [Date |-> date, BankName |-> name, LoanType |-> type, Rate |-> rate,
     APR |-> apr, src |-> src, pat |-> pat]

\* results.append({... "Rate": f"{rate}%", "APR": f"{apr}%"})
MatchedRow(ts, config, label, m, src, pat) ==
    Row(ts, config.name, label, Percent(m.g1), Percent(m.g2), src, pat)

OnExceptionNoRow(res, ts, config, src) == res

\* the except clause of scrape_rates
OnException(res, ts, config, src) ==
    Append(res, Row(ts, config.name, "Error", ErrorStr, ErrorStr, src, 0))

EmitFirst(res, row) == <<row>> \o res

\* results.append(...) of a matched row
Emit(res, row) == Append(res, row)

LastFrame(frames, iframe_check) ==
    LET hits == {k \in 1..Len(frames) :
                    frames[k].ok /\ Contains(frames[k].text, iframe_check)}
    IN  IF hits = {} THEN 0 ELSE CHOOSE x \in hits : \A y \in hits : y <= x

\* the frame loop of scrape_rates: index of the first frame whose body text
\* can be read and contains iframe_check, 0 if there is none
FirstFrame(frames, iframe_check) ==
    LET hits == {k \in 1..Len(frames) :
                    frames[k].ok /\ Contains(frames[k].text, iframe_check)}
    IN  IF hits = {} THEN 0 ELSE Min(hits)

\* rows.append([r['Date'], r['Bank Name'], r['Loan Type'], r['Rate'], r['APR']])
SheetRows(res) ==
    [k \in 1..Len(res) |->
        <<res[k].Date, res[k].BankName, res[k].LoanType, res[k].Rate,
          res[k].APR>>]

OldRow == <<0, "A", "Fixed 30", Percent(<<"6", ".", "0">>),
            Percent(<<"6", ".", "1">>)>>

cfg == configs[i]

ScrapeInit ==
    /\ configs \in ConfigLists
    /\ pc = "main"
    /\ i = 0
    /\ j = 0
    /\ page = NoPage
    /\ pageClosed = FALSE
    /\ target_text = <<>>
    /\ results = <<>>
    /\ timestamp = 0
    /\ clock = 1
    /\ rates = <<OldRow>>
    /\ cause = [k \in 1..Len(configs) |-> "pending"]
    /\ chosen = 0
    /\ escaped = "none"

\* an exception inside the try block: the except clause appends the row
\* and control reaches the finally clause
Fail(step) ==
    /\ results' = OnException(results, timestamp, cfg, i)
    /\ cause' = [cause EXCEPT ![i] = step]
    /\ pc' = "finally"

\* main() calls scrape_rates(configs): results = [], timestamp = now()
scrape_rates ==
    /\ UNCHANGED <<synthVars, storeVars>>
    /\ pc = "main"
    /\ results' = <<>>
    /\ timestamp' = clock
    /\ i' = 1
    /\ pc' = "loop"
    /\ UNCHANGED <<configs, j, page, pageClosed, target_text, clock, rates,
                   cause, chosen, escaped>>

\* browser.new_context(...); context.new_page(): outside the try block
NewPage ==
    /\ UNCHANGED <<synthVars, storeVars>>
    /\ pc = "loop"
    /\ i <= Len(configs)
    /\ \E ok \in BOOLEAN :
        IF ok
        THEN /\ pc' = "goto"
             /\ page' = NoPage
             /\ pageClosed' = FALSE
             /\ target_text' = <<>>
             /\ chosen' = 0
             /\ j' = 0
             /\ clock' = clock + 1
             /\ escaped' = escaped
        ELSE /\ pc' = "raised"
             /\ escaped' = "new_page"
             /\ UNCHANGED <<page, pageClosed, target_text, chosen, j, clock>>
    /\ UNCHANGED <<configs, i, results, timestamp, rates, cause>>

\* page.goto(...) and the two waits, whose timeouts are swallowed
Goto ==
    /\ UNCHANGED <<synthVars, storeVars>>
    /\ pc = "goto"
    /\ \E p \in Pages \cup {NoPage} :
        IF p = NoPage
        THEN /\ Fail("goto")
             /\ page' = page
        ELSE /\ page' = p
             /\ pc' = "text"
             /\ UNCHANGED <<results, cause>>
    /\ UNCHANGED <<configs, i, j, pageClosed, target_text, timestamp, clock,
                   rates, chosen, escaped>>

StopAfterItem(k) == "finally"

\* the inner for loop goes on to item k, or is over
AfterItem(k) == IF k > Len(cfg.patterns) THEN "finally" ELSE "match"

\* lines 129-148: choose target_text
LocateText ==
    /\ UNCHANGED <<synthVars, storeVars>>
    /\ pc = "text"
    /\ IF cfg.iframe_check # ""
       THEN LET k == FirstFrame(page.frames, cfg.iframe_check)
            IN  IF k # 0
                THEN /\ target_text' = page.frames[k].text
                     /\ chosen' = k
                     /\ j' = 1
                     /\ pc' = AfterItem(1)
                     /\ UNCHANGED <<results, cause, pageClosed>>
                ELSE \* page.close(); continue
                     \E closed \in BOOLEAN :
                        IF closed
                        THEN /\ pageClosed' = TRUE
                             /\ cause' = [cause EXCEPT ![i] = "noframe"]
                             /\ pc' = "finally"
                             /\ UNCHANGED <<results, target_text, chosen, j>>
                        ELSE /\ Fail("close")
                             /\ UNCHANGED <<pageClosed, target_text, chosen, j>>
       ELSE IF page.frames[1].ok
            THEN /\ target_text' = page.frames[1].text
                 /\ chosen' = 1
                 /\ j' = 1
                 /\ pc' = AfterItem(1)
                 /\ UNCHANGED <<results, cause, pageClosed>>
            ELSE /\ Fail("text")
                 /\ UNCHANGED <<pageClosed, target_text, chosen, j>>
    /\ UNCHANGED <<configs, i, page, timestamp, clock, rates, escaped>>

\* one pass of `for label, pattern in config['patterns'].items()`
MatchPattern ==
    /\ UNCHANGED <<synthVars, storeVars>>
    /\ pc = "match"
    /\ LET item == cfg.patterns[j]
           m == search(item.pattern, target_text)
       IN  CASE m.res = "match" ->
                  /\ results' = Emit(results,
                         MatchedRow(timestamp, cfg, item.label, m, i, j))
                  /\ j' = j + 1
                  /\ pc' = AfterItem(j + 1)
                  /\ cause' = cause
             [] m.res = "nomatch" ->
                  /\ j' = j + 1
                  /\ pc' = AfterItem(j + 1)
                  /\ UNCHANGED <<results, cause>>
             [] OTHER ->
                  /\ Fail("match")
                  /\ j' = j
    /\ UNCHANGED <<configs, i, page, pageClosed, target_text, timestamp,
                   clock, rates, chosen, escaped>>

\* finally: page.close().  Closing a page that is already closed does
\* nothing; otherwise the call may raise, and nothing catches it.
Finally ==
    /\ UNCHANGED <<synthVars, storeVars>>
    /\ pc = "finally"
    /\ \E ok \in IF pageClosed THEN {TRUE} ELSE BOOLEAN :
        IF ok
        THEN /\ i' = i + 1
             /\ pc' = "loop"
             /\ cause' = [cause EXCEPT
                    ![i] = IF @ = "pending" THEN "done" ELSE @]
             /\ escaped' = escaped
        ELSE /\ pc' = "raised"
             /\ escaped' = "close"
             /\ UNCHANGED <<i, cause>>
    /\ UNCHANGED <<configs, j, page, pageClosed, target_text, results,
                   timestamp, clock, rates, chosen>>

\* the loop is over: browser.close(); return results
Return ==
    /\ UNCHANGED <<synthVars, storeVars>>
    /\ pc = "loop"
    /\ i > Len(configs)
    /\ pc' = "returned"
    /\ UNCHANGED <<configs, i, j, page, pageClosed, target_text, results,
                   timestamp, clock, rates, cause, chosen, escaped>>

\* main() calls save_to_sheet(client, results)
save_to_sheet ==
    /\ UNCHANGED <<synthVars, storeVars>>
    /\ pc = "returned"
    /\ \E sheet \in BOOLEAN :
        rates' = IF results # <<>> /\ sheet
                 THEN rates \o SheetRows(results) ELSE rates
    /\ pc' = "saved"
    /\ UNCHANGED <<configs, i, j, page, pageClosed, target_text, results,
                   timestamp, clock, cause, chosen, escaped>>

\* the other programs are idle during a batch run
SynthIdle == spage = NoPage /\ sout = [status |-> "idle"]
StoreIdle ==
    sheetConfigs = <<>> /\ fileConfigs = <<>> /\ lastAdd = <<>> /\ forms = <<>>

Init == ScrapeInit /\ SynthIdle /\ StoreIdle

Next ==
    \/ scrape_rates
    \/ NewPage
    \/ Goto
    \/ LocateText
    \/ MatchPattern
    \/ Finally
    \/ Return
    \/ save_to_sheet

Spec == Init /\ [][Next]_vars

-----------------------------------------------------------------------------
(* create_bank_config.py: analyze_url *)

MaxLen == 4

\* keywords, in the order of the dict
keywords ==
    <<[label |-> "Fixed 30",
       terms |-> <<"30 Year Fixed", "Fixed 30", "30-Year Fixed",
                   "Conventional 30", "Conforming 30">>],
      [label |-> "Fixed 15",
       terms |-> <<"15 Year Fixed", "Fixed 15", "15-Year Fixed",
                   "Conventional 15", "Conforming 15">>]>>

\* .{0,150}? between the term and the first percentage, .{0,50}? between
\* percentages
TermGap == 150
PctGap == 50

\* re.search(base_pattern, target_text, re.DOTALL | re.IGNORECASE):
\* the leftmost occurrence of the term that has, within TermGap characters,
\* a percentage followed within PctGap characters by a second one; the first
\* such percentage; the optional third group if a third percentage follows
\* within PctGap characters
probe(text, term) ==
    LET firsts(a) ==
            {b \in PctsAfter(text, a) :
                /\ Dist(text, a, b) <= TermGap
                /\ NextPct(text, b) # 0
                /\ Dist(text, b, NextPct(text, b)) <= PctGap}
        starts == {a \in LiteralAt(text, term) : firsts(a) # {}}
    IN  IF starts = {} THEN NoMatch
        ELSE LET a == Min(starts)
                 b == Min(firsts(a))
                 c == NextPct(text, b)
                 d == NextPct(text, c)
             IN  Match(a, text[b].d, text[c].d,
                       IF d # 0 /\ Dist(text, c, d) <= PctGap
                       THEN text[d].d ELSE <<>>)

\* re.search(table_pattern_3, ...): numeral, optional words, three
\* percentages
table_probe_3(text, years) ==
    IF RowAt(text, years, 3) = {} THEN NoMatch
    ELSE LET a == Min(RowAt(text, years, 3))
             q == SkipWords(text, a)
         IN  Match(a, text[q].d, text[q + 1].d, text[q + 2].d)

\* re.search(table_pattern, ...): numeral, optional words, an uncaptured
\* percentage, two captured ones
table_probe(text, years) == SearchTable(text, years, 3, 2, 3)

SkipAlways(m) == m.g3 # <<>>
SkipNever(m) == FALSE

\* line 132: v3 is not None and v2 < v1
KeywordSkipsMiddle(m) ==
    m.g3 # <<>> /\ FloatLess(float(m.g2), float(m.g1))

\* line 171: v2 < v1
TableSkipsMiddle(m) == FloatLess(float(m.g2), float(m.g1))

\* f"{rate_val}%" of a float parsed from the page
FormatValue(x, written) == FloatStr(x)

Found(label, via, pattern, rate, apr, m) ==
    [found |-> TRUE, label |-> label, via |-> via, pattern |-> pattern,
     rate |-> rate, apr |-> apr, m |-> m]

Omitted(label) ==
    [found |-> FALSE, label |-> label, via |-> "none",
     pattern |-> Pattern("", ""), rate |-> <<>>, apr |-> <<>>, m |-> NoMatch]

\* lines 99-186 for one label of keywords
SynthLabel(text, kw) ==
    LET hits == {t \in 1..Len(kw.terms) :
                    probe(text, kw.terms[t]).res = "match"}
        years == IF kw.label = "Fixed 30" THEN "30" ELSE "15"
    IN  IF hits # {}
        THEN LET term == kw.terms[Min(hits)]
                 m == probe(text, term)
                 v1 == float(m.g1)
                 v2 == float(m.g2)
             IN  IF KeywordSkipsMiddle(m)
                 THEN Found(kw.label, "keyword", Pattern("kw3", term),
                            Percent(FormatValue(v1, m.g1)),
                            Percent(FormatValue(float(m.g3), m.g3)), m)
                 ELSE Found(kw.label, "keyword", Pattern("kw2", term),
                            Percent(FormatValue(v1, m.g1)),
                            Percent(FormatValue(v2, m.g2)), m)
        ELSE LET m == table_probe_3(text, years)
                 t == table_probe(text, years)
             IN  IF m.res = "match"
                 THEN IF TableSkipsMiddle(m)
                      THEN Found(kw.label, "table3", Pattern("tbl3", years),
                                 Percent(FormatValue(float(m.g1), m.g1)),
                                 Percent(FormatValue(float(m.g3), m.g3)), m)
                      ELSE Found(kw.label, "table3", Pattern("tbl2", years),
                                 Percent(FormatValue(float(m.g1), m.g1)),
                                 Percent(FormatValue(float(m.g2), m.g2)), m)
                 ELSE IF t.res = "match"
                      THEN Found(kw.label, "table", Pattern("tblpts", years),
                                 Percent(t.g1), Percent(t.g2), t)
                      ELSE Omitted(kw.label)

\* [a-zA-Z0-9'\s]
InNameClass(c) == IsLetter(c) \/ IsDigit(c) \/ c = "'" \/ IsSpace(c)

NameEndings == {<<"B", "a", "n", "k">>,
                <<"C", "r", "e", "d", "i", "t", " ", "U", "n", "i", "o", "n">>}

Max(S) == CHOOSE x \in S : \A y \in S : y <= x

\* re.search(r"([A-Z][a-zA-Z0-9'\s]+(?:Bank|Credit Union))", str): the
\* leftmost capital from which characters of the class lead to an ending,
\* and from there the longest run (the quantifier is greedy); <<>> if there
\* is no match
name_search(str) ==
    LET ends(a) ==
            {b \in (a + 2)..Len(str) :
                /\ \E e \in NameEndings : At(str, e, b)
                /\ \A q \in (a + 1)..(b - 1) : InNameClass(str[q])}
        starts == {a \in 1..Len(str) : IsUpper(str[a]) /\ ends(a) # {}}
    IN  IF starts = {} THEN <<>>
        ELSE LET a == Min(starts)
                 b == Max(ends(a))
                 e == CHOOSE x \in NameEndings : At(str, x, b)
             IN  SubSeq(str, a, b + Len(e) - 1)

\* the match of the name expression in a page text.  Only a name phrase
\* holds one of the endings, so a text without one has no match.
name_match(text) ==
    IF \A a \in 1..Len(text) : text[a].k # "name" THEN <<>>
    ELSE name_search(Render(text))

\* urlparse(url).netloc: what stands between "//" and the next "/", "?" or
\* "#"
RECURSIVE UpTo(_, _)
UpTo(str, stops) ==
    IF str = <<>> \/ str[1] \in stops THEN <<>>
    ELSE <<str[1]>> \o UpTo(Tail(str), stops)

netloc(url) ==
    LET slashes == {k \in 1..Len(url) : At(url, <<"/", "/">>, k)}
    IN  IF slashes = {} THEN <<>>
        ELSE UpTo(SubSeq(url, Min(slashes) + 2, Len(url)), {"/", "?", "#"})

AutoNamed == <<" ", "(", "A", "u", "t", "o", "-", "n", "a", "m", "e", "d", ")">>

Www == <<"w", "w", "w", ".">>

\* lines 51-55: the name derived from the host of the URL
domain_name(url) ==
    LET domain == IF In(Www, netloc(url)) THEN replace(netloc(url), Www)
                  ELSE netloc(url)
    IN  title(First(domain, ".")) \o AutoNamed

LooksLikeBank(str) ==
    \/ In(<<"b", "a", "n", "k">>, lower(str))
    \/ In(<<"c", "r", "e", "d", "i", "t", " ", "u", "n", "i", "o", "n">>, lower(str))

\* lines 35-55: the name of the lender
discover_name(url, p) ==
    LET name == strip(First(First(p.title, "|"), "-"))
    IN  IF LooksLikeBank(name) THEN name
        ELSE IF name_match(p.frames[1].text) # <<>>
        THEN strip(name_match(p.frames[1].text))
        ELSE domain_name(url)

AllTerms == keywords[1].terms \o keywords[2].terms

HasKeyword(text) == \E t \in 1..Len(AllTerms) : ContainsLower(text, AllTerms[t])

LastFrameWithKeyword(frames) ==
    LET hits == {k \in 1..Len(frames) :
                    frames[k].ok /\ HasKeyword(frames[k].text)}
    IN  IF hits = {} THEN 0 ELSE Max(hits)

\* lines 66-93: the first frame whose text holds a keyword, and the first
\* keyword of the table it holds
FrameWithKeyword(frames) ==
    LET hits == {k \in 1..Len(frames) :
                    frames[k].ok /\ HasKeyword(frames[k].text)}
    IN  IF hits = {} THEN 0 ELSE Min(hits)

FirstKeyword(text) ==
    AllTerms[Min({t \in 1..Len(AllTerms) : ContainsLower(text, AllTerms[t])})]

\* analyze_url returned None; why is history: "navigation" (page.goto
\* raised) or "nopatterns" (line 190)
None(why) ==
    [status |-> "none", why |-> why, name |-> <<>>, url |-> <<>>,
     iframe_check |-> "", target |-> <<>>, labels |-> <<>>]

Pending == [None("") EXCEPT !.status = "pending"]

NoPatternsNever(labels) == FALSE

\* line 190: `if not patterns`
NoPatterns(labels) == \A n \in 1..Len(labels) : ~labels[n].found

\* the body of analyze_url after a successful page.goto.  labels holds, per
\* label of keywords, what the pattern loop did; the returned patterns and
\* found_values are its found entries.
analyze_url(url, p) ==
    LET body == p.frames[1].text
        k == IF HasKeyword(body) THEN 0 ELSE FrameWithKeyword(p.frames)
        target_text_ == IF k = 0 THEN body ELSE p.frames[k].text
        iframe_check == IF k = 0 THEN "" ELSE FirstKeyword(target_text_)
        labels == [n \in 1..Len(keywords) |->
                      SynthLabel(target_text_, keywords[n])]
    IN  IF NoPatterns(labels)
        THEN None("nopatterns")
        ELSE [status |-> "config", why |-> "",
              name |-> discover_name(url, p), url |-> url,
              iframe_check |-> iframe_check, target |-> target_text_,
              labels |-> labels]

\* new_config['patterns'] and new_config['found_values']
patterns(out) ==
    LET on == SelectSeq(out.labels, LAMBDA l : l.found)
    IN  [n \in 1..Len(on) |-> Item(on[n].label, on[n].pattern)]

found_values(out) ==
    LET on == SelectSeq(out.labels, LAMBDA l : l.found)
    IN  [n \in 1..Len(on) |->
            [label |-> on[n].label, rate |-> on[n].rate, apr |-> on[n].apr]]

Alphabet ==
    {Term("30 Year Fixed", "exact"), Term("30 Year Fixed", "spaced"),
     Term("Fixed 30", "exact"), Years("30"),
     Words(5), Gap(60), Gap(160),
     Pct(<<"0", ".", "5", "0", "0">>), Pct(<<"6", ".", "0", "0", "0">>),
     Pct(<<"6", ".", "1", "2", "5">>), Pct(<<"6", ".", "2", "5", "0">>)}

Texts == UNION {[1..n -> Alphabet] : n \in 0..MaxLen}

\* "https://www.acme.io/rates"
UrlAcme ==
    <<"h", "t", "t", "p", "s", ":", "/", "/", "w", "w", "w", ".",
      "a", "c", "m", "e", ".", "i", "o", "/", "r", "a", "t", "e",
      "s">>

\* "https://mywww.acme.io/"
UrlMyWww ==
    <<"h", "t", "t", "p", "s", ":", "/", "/", "m", "y", "w", "w",
      "w", ".", "a", "c", "m", "e", ".", "i", "o", "/">>

\* "http://lend-now.io?p=1"
UrlLend ==
    <<"h", "t", "t", "p", ":", "/", "/", "l", "e", "n", "d", "-",
      "n", "o", "w", ".", "i", "o", "?", "p", "=", "1">>

SynthUrls == {UrlAcme, UrlMyWww, UrlLend}

\* "First Bank | Rates"
TitleBank ==
    <<"F", "i", "r", "s", "t", " ", "B", "a", "n", "k", " ", "|",
      " ", "R", "a", "t", "e", "s">>

\* "Rates - Big Bank | Home"
TitleRates ==
    <<"R", "a", "t", "e", "s", " ", "-", " ", "B", "i", "g", " ",
      "B", "a", "n", "k", " ", "|", " ", "H", "o", "m", "e">>

\* " ACME CREDIT UNION "
TitleUnion ==
    <<" ", "A", "C", "M", "E", " ", "C", "R", "E", "D", "I", "T",
      " ", "U", "N", "I", "O", "N", " ">>

Titles == {<<>>, TitleBank, TitleRates, TitleUnion}

\* "Union Bank"
UnionBank ==
    <<"U", "n", "i", "o", "n", " ", "B", "a", "n", "k">>

\* "First Bank"
FirstBank ==
    <<"F", "i", "r", "s", "t", " ", "B", "a", "n", "k">>

\* "Acme Credit Union"
AcmeCreditUnion ==
    <<"A", "c", "m", "e", " ", "C", "r", "e", "d", "i", "t", " ",
      "U", "n", "i", "o", "n">>

\* "our Credit Union"
OurCreditUnion ==
    <<"o", "u", "r", " ", "C", "r", "e", "d", "i", "t", " ", "U",
      "n", "i", "o", "n">>

\* main texts with and without a lender's name
NameTexts ==
    {RatesB,
     <<Name(UnionBank)>> \o RatesB,
     RatesB \o <<Name(OurCreditUnion)>>,
     <<Name(FirstBank), Words(5), Name(AcmeCreditUnion)>> \o RatesB,
     <<Term("Fixed 30", "exact"), Name(FirstBank),
       Pct(<<"7", ".", "0", "0", "0">>), Pct(<<"7", ".", "1", "2", "5">>)>>}

NamePages ==
    {Titled(t, Page(<<Frame(TRUE, body)>>)) : t \in Titles, body \in NameTexts}

\* the frames a page may embed besides its main frame
SubFrames ==
    {<<>>, <<Frame(FALSE, <<>>), Frame(TRUE, RatesUpper), Frame(TRUE, RatesA)>>}

\* a keyword with an older rate next to it, and the day's rate and APR
\* further down
Teaser ==
    <<Term("Fixed 30", "exact"), Pct(<<"6", ".", "0", "0", "0">>), Gap(60),
      Pct(<<"6", ".", "1", "2", "5">>), Pct(<<"6", ".", "2", "5", "0">>)>>

\* a heading that breaks the keyword over lines, above the rates
Heading ==
    <<Term("30 Year Fixed", "spaced"), Pct(<<"6", ".", "0", "0", "0">>),
      Term("30 Year Fixed", "exact"),
      Pct(<<"6", ".", "1", "2", "5">>), Pct(<<"6", ".", "2", "5", "0">>)>>

SynthPages ==
    {Page(<<Frame(TRUE, t)>> \o sub) : t \in Texts, sub \in SubFrames}
        \cup {Page(<<Frame(TRUE, Teaser)>>), Page(<<Frame(TRUE, Heading)>>)}

ScrapeIdle ==
    /\ configs = <<>>
    /\ pc = "idle"
    /\ i = 0
    /\ j = 0
    /\ page = NoPage
    /\ pageClosed = FALSE
    /\ target_text = <<>>
    /\ results = <<>>
    /\ timestamp = 0
    /\ clock = 1
    /\ rates = <<OldRow>>
    /\ cause = <<>>
    /\ chosen = 0
    /\ escaped = "none"

\* the calls of analyze_url: a URL and the page it serves
Visits ==
    {<<UrlAcme, p>> : p \in SynthPages}
        \cup {<<u, p>> : u \in SynthUrls, p \in NamePages}

SynthInit ==
    \E v \in Visits :
        /\ spage = v[2]
        /\ sout = [Pending EXCEPT !.url = v[1]]

\* analyze_url(url): page.goto raises and None is returned, or the page is
\* analysed
Analyze ==
    /\ sout.status = "pending"
    /\ \E reached \in BOOLEAN :
        sout' = IF reached THEN analyze_url(sout.url, spage)
                ELSE None("navigation")
    /\ UNCHANGED <<spage, scrapeVars, storeVars>>

InitSynth == ScrapeIdle /\ SynthInit /\ StoreIdle

NextSynth == Analyze

SpecSynth == InitSynth /\ [][NextSynth]_vars

-----------------------------------------------------------------------------
(* app.py: the add-bank form; create_bank_config.py: generate_config *)

MaxAdds == 3

\* the URLs submitted
Urls == {UrlAcme, UrlLend}

\* pages a submitted URL may serve: the rates of First Bank, the rates of
\* ACME CREDIT UNION, a page without rates
AddPages ==
    {Titled(TitleBank, Page(<<Frame(TRUE, RatesA)>>)),
     Titled(TitleUnion, Page(<<Frame(TRUE, RatesB)>>)),
     Page(<<Frame(TRUE, Plain)>>)}

\* what the analysis of a submitted URL may return: None when page.goto
\* raises, else the result for the page served
Analyses ==
    {None("navigation")}
        \cup {analyze_url(u, p) : u \in Urls, p \in AddPages}

\* the results the analysis of url may come to
AnalysesOf(url) == {out \in Analyses : out.status = "none" \/ out.url = url}

\* history of an add-bank operation: analysis tells what the analysis of the
\* URL came to ("" when it was not run)
Operation(n, op, url, name, analysis, outcome) ==
    [n |-> n, op |-> op, url |-> url, name |-> name, analysis |-> analysis,
     outcome |-> outcome]

Analysed(out) == IF out.status = "none" THEN out.why ELSE "config"

\* two browser sessions of the dashboard
Sessions == {1, 2}

\* the submit handler of a session: where it is, and its locals
Form(at, new_url, configs_, new_config, loaded, outcome) ==
    [pc |-> at, new_url |-> new_url, configs |-> configs_,
     new_config |-> new_config, loaded |-> loaded, outcome |-> outcome]

StoreInit ==
    /\ sheetConfigs = <<>>
    /\ fileConfigs = <<>>
    /\ lastAdd = Operation(0, "", <<>>, <<>>, "", "")
    /\ forms = [s \in Sessions |-> Form("idle", <<>>, <<>>, Pending, TRUE, "")]

\* last_refreshed: df["Date"].max() of the Rates sheet
last_refreshed(sheet) ==
    CHOOSE d \in {sheet[k][1] : k \in 1..Len(sheet)} :
        \A k \in 1..Len(sheet) : sheet[k][1] <= d

\* new_rows of the add-bank form as rows of the Rates sheet
new_rows(date, name, out) ==
    [n \in 1..Len(found_values(out)) |->
        <<date, name, found_values(out)[n].label, found_values(out)[n].rate,
          found_values(out)[n].apr>>]

\* the submit handler of add_bank_form for a non-empty, valid URL.
\*   loaded  load_configs() read the Configs sheet (otherwise it returns [])
\*   out     what analyze_url returns in the subprocess
\*   crashed the subprocess exits with an error
\*   saved   save_config appended the row
\*   rated   the Rates sheet could be opened and appended to
add_bank_form ==
    /\ lastAdd.n < MaxAdds
    /\ \E new_url \in Urls, loaded, crashed, saved, rated \in BOOLEAN :
       \E out \in AnalysesOf(new_url) :
        LET configs_ == IF loaded THEN sheetConfigs ELSE <<>>
            name == out.name
            exists == \E k \in 1..Len(configs_) : configs_[k].url = new_url
            name_exists ==
                \E k \in 1..Len(configs_) : configs_[k].name = name
            done(analysis, outcome) ==
                lastAdd' = Operation(lastAdd.n + 1, "form", new_url, name,
                                     analysis, outcome)
        IN  IF exists
            THEN done("", "url exists") /\ UNCHANGED <<sheetConfigs, rates>>
            ELSE IF crashed
            THEN done("crashed", "error") /\ UNCHANGED <<sheetConfigs, rates>>
            ELSE IF out.status = "none"
            THEN /\ done(Analysed(out), "no rates")
                 /\ UNCHANGED <<sheetConfigs, rates>>
            ELSE IF name_exists
            THEN /\ done(Analysed(out), "name exists")
                 /\ UNCHANGED <<sheetConfigs, rates>>
            ELSE /\ sheetConfigs' =
                        IF saved
                        THEN Append(sheetConfigs,
                                 Config(name, new_url, out.iframe_check,
                                        patterns(out)))
                        ELSE sheetConfigs
                 /\ rates' =
                        IF rated
                        THEN rates \o new_rows(last_refreshed(rates), name, out)
                        ELSE rates
                 /\ done(Analysed(out), "success")
    /\ UNCHANGED <<fileConfigs, forms, synthVars>>
    /\ UNCHANGED <<configs, pc, i, j, page, pageClosed, target_text, results,
                   timestamp, clock, cause, chosen, escaped>>

\* generate_config(url) of the command line.
\*   answer   what the user types at the prompt
\*   readable bank_configs.json is absent or parses (otherwise configs = [])
generate_config ==
    /\ lastAdd.n < MaxAdds
    /\ \E url \in Urls, answer \in {"y", "n"}, readable \in BOOLEAN :
       \E out \in AnalysesOf(url) :
        LET configs_ == IF readable THEN fileConfigs ELSE <<>>
            name == out.name
            done(outcome) ==
                lastAdd' = Operation(lastAdd.n + 1, "cli", url, name,
                                     Analysed(out), outcome)
        IN  IF out.status = "none"
            THEN done("failed") /\ UNCHANGED fileConfigs
            ELSE IF answer # "y"
            THEN done("not saved") /\ UNCHANGED fileConfigs
            ELSE /\ fileConfigs' =
                        Append(configs_,
                               Config(name, url, out.iframe_check,
                                      patterns(out)))
                 /\ done("saved")
    /\ UNCHANGED <<sheetConfigs, forms, synthVars, scrapeVars>>

InitStore == ScrapeIdle /\ SynthIdle /\ StoreInit

NextStore ==
    \/ add_bank_form
    \/ generate_config

SpecStore == InitStore /\ [][NextStore]_vars

-----------------------------------------------------------------------------
(* app.py: add-bank submissions of two sessions, step by step *)

\* Each session runs the submit handler in its own script run.  The handler
\* is cut where it calls out: load_configs (a sheet read), the analysis
\* subprocess, save_config (a sheet append), the append to the Rates sheet.

ScrapeFixed ==
    UNCHANGED <<configs, pc, i, j, page, pageClosed, target_text, results,
                timestamp, clock, cause, chosen, escaped>>

\* lines 303-313: configs = load_configs() and the check of the URL
Submit ==
    /\ \E s \in Sessions, new_url \in Urls, loaded \in BOOLEAN :
        LET configs_ == IF loaded THEN sheetConfigs ELSE <<>>
            exists == \E k \in 1..Len(configs_) : configs_[k].url = new_url
        IN  /\ forms[s].pc = "idle"
            /\ forms' = [forms EXCEPT ![s] =
                    IF exists
                    THEN Form("done", new_url, configs_, Pending, loaded,
                              "url exists")
                    ELSE Form("analyzing", new_url, configs_, Pending, loaded,
                              "")]
    /\ ScrapeFixed
    /\ UNCHANGED <<sheetConfigs, fileConfigs, lastAdd, rates, synthVars>>

\* lines 318-337 and 382-390: the subprocess and the check of the name
\* against the configs loaded at the start
RunAnalysis ==
    /\ \E s \in Sessions, crashed \in BOOLEAN :
       \E out \in AnalysesOf(forms[s].new_url) :
        LET name_exists ==
                \E k \in 1..Len(forms[s].configs) :
                    forms[s].configs[k].name = out.name
        IN  /\ forms[s].pc = "analyzing"
            /\ forms' = [forms EXCEPT ![s] =
                    IF crashed
                    THEN [@ EXCEPT !.pc = "done", !.outcome = "error"]
                    ELSE IF out.status = "none"
                    THEN [@ EXCEPT !.pc = "done", !.outcome = "no rates"]
                    ELSE IF name_exists
                    THEN [@ EXCEPT !.pc = "done", !.new_config = out,
                                   !.outcome = "name exists"]
                    ELSE [@ EXCEPT !.pc = "saving", !.new_config = out]]
    /\ ScrapeFixed
    /\ UNCHANGED <<sheetConfigs, fileConfigs, lastAdd, rates, synthVars>>

\* line 342: save_config(new_config)
SaveConfig ==
    /\ \E s \in Sessions, saved \in BOOLEAN :
        /\ forms[s].pc = "saving"
        /\ sheetConfigs' =
                IF saved
                THEN Append(sheetConfigs,
                         Config(forms[s].new_config.name, forms[s].new_url,
                                forms[s].new_config.iframe_check,
                                patterns(forms[s].new_config)))
                ELSE sheetConfigs
        /\ forms' = [forms EXCEPT ![s].pc = "rating"]
    /\ ScrapeFixed
    /\ UNCHANGED <<fileConfigs, lastAdd, rates, synthVars>>

\* lines 345-381: the rows of the found values and the success message
AppendRates ==
    /\ \E s \in Sessions, rated \in BOOLEAN :
        /\ forms[s].pc = "rating"
        /\ rates' =
                IF rated
                THEN rates \o new_rows(last_refreshed(rates),
                                       forms[s].new_config.name,
                                       forms[s].new_config)
                ELSE rates
        /\ forms' = [forms EXCEPT ![s].pc = "done", ![s].outcome = "success"]
    /\ ScrapeFixed
    /\ UNCHANGED <<sheetConfigs, fileConfigs, lastAdd, synthVars>>

NextForms ==
    \/ Submit
    \/ RunAnalysis
    \/ SaveConfig
    \/ AppendRates

SpecForms == InitStore /\ [][NextForms]_vars

-----------------------------------------------------------------------------
(* Properties of the batch run *)

Sources == 1..Len(configs)

\* the rows of results that config k produced, in order
Contribution(k) == SelectSeq(results, LAMBDA r : r.src = k)

IsErrorRow(r) == r.LoanType = "Error" /\ r.Rate = ErrorStr /\ r.APR = ErrorStr

ErrorRows(k) == SelectSeq(Contribution(k), IsErrorRow)
MatchedRows(k) == SelectSeq(Contribution(k), LAMBDA r : ~IsErrorRow(r))

Raised == {"goto", "text", "match", "close"}

\* C1: a source whose navigation, text read or matching raised contributes
\* exactly one Error row (its last row, and its only row when the failure
\* came before matching), carrying the source's name; that exception does
\* not end the loop: unless the run was left by another call's exception,
\* the loop is at that source's finally clause or past the source, and a run
\* that returns has processed every source.
C1_OneErrorRowAndLoopGoesOn ==
    /\ \A k \in Sources :
        cause[k] \in Raised =>
            /\ Len(ErrorRows(k)) = 1
            /\ IsErrorRow(Contribution(k)[Len(Contribution(k))])
            /\ ErrorRows(k)[1].BankName = configs[k].name
            /\ cause[k] # "match" => Len(Contribution(k)) = 1
            /\ pc # "raised" => (i = k /\ pc = "finally") \/ i > k
    /\ pc \in {"returned", "saved"} =>
            \A k \in Sources : cause[k] # "pending"

\* three sources, only the second fails to navigate: rows of the first, the
\* Error row, rows of the third
C1_Witness ==
    /\ pc = "returned"
    /\ Len(configs) = 3
    /\ cause = <<"done", "goto", "done">>
    /\ Len(Contribution(1)) = 2
    /\ Len(Contribution(2)) = 1
    /\ Len(Contribution(3)) = 2
    /\ IsErrorRow(results[3])

\* C2: when the frame anchor is set and no frame of the loaded page contains
\* it, the source contributes exactly one Error row.
C2_FrameNotFoundGivesErrorRow ==
    (/\ pc = "finally"
     /\ page # NoPage
     /\ cfg.iframe_check # ""
     /\ \A k \in 1..Len(page.frames) :
            ~Contains(page.frames[k].text, cfg.iframe_check))
    => /\ Len(Contribution(i)) = 1
       /\ IsErrorRow(Contribution(i)[1])

\* C3: the rows of one source are matched rows only or one Error row only,
\* never both.
C3_NeverMatchedAndError ==
    \A k \in Sources : ErrorRows(k) = <<>> \/ MatchedRows(k) = <<>>

\* C4: scrape_rates never raises to its caller.
C4_NeverRaises == pc # "raised"

\* C5: the matched rows of results are in the order of their sources in
\* configs and, within a source, in the order of the items of its patterns
\* mapping, each row carrying the label of its item and the name of its
\* source; when save_to_sheet appends, the Rates sheet is its old rows
\* followed by the rows of results in the same order.
C5_OrderKept ==
    /\ \A a, b \in 1..Len(results) :
        a < b =>
            /\ results[a].src <= results[b].src
            /\ (results[a].src = results[b].src /\ ~IsErrorRow(results[b]))
                  => results[a].pat < results[b].pat
    /\ \A a \in 1..Len(results) :
        /\ results[a].BankName = configs[results[a].src].name
        /\ ~IsErrorRow(results[a]) =>
              results[a].LoanType =
                  configs[results[a].src].patterns[results[a].pat].label
    /\ rates[1] = OldRow
    /\ Len(rates) # 1 =>
        /\ pc = "saved"
        /\ Len(rates) = 1 + Len(results)
        /\ \A a \in 1..Len(results) :
              rates[1 + a] = <<results[a].Date, results[a].BankName,
                               results[a].LoanType, results[a].Rate,
                               results[a].APR>>

\* the rows of two different sources, the first with two matched rows, were
\* appended to the sheet
C5_Witness ==
    /\ pc = "saved"
    /\ Len(rates) = 1 + Len(results)
    /\ Len(MatchedRows(1)) = 2
    /\ Len(MatchedRows(2)) >= 1
    /\ configs[1] # configs[2]

MatchingLabels(n) ==
    LET hit(it) == search(it.pattern, target_text).res = "match"
        on == SelectSeq(SubSeq(cfg.patterns, 1, n), hit)
    IN  [k \in 1..Len(on) |-> on[k].label]

\* C12: while the matching of a source has raised nothing, the source's rows
\* are exactly the rows of the items tried so far whose pattern matched, in
\* order: an item whose pattern does not match adds no row and no Error row,
\* and the loop goes on to every later item, so that matching ends only when
\* all items were tried.
C12_NoMatchIsNotFailure ==
    (pc \in {"match", "finally"} /\ chosen # 0 /\ cause[i] = "pending") =>
        /\ ErrorRows(i) = <<>>
        /\ [k \in 1..Len(Contribution(i)) |-> Contribution(i)[k].LoanType]
              = MatchingLabels(j - 1)
        /\ pc = "finally" => j = Len(cfg.patterns) + 1

\* the first pattern of a source did not match, the second did
C12_Witness ==
    /\ pc = "finally"
    /\ chosen # 0
    /\ cause[i] = "pending"
    /\ search(cfg.patterns[1].pattern, target_text).res = "nomatch"
    /\ search(cfg.patterns[2].pattern, target_text).res = "match"
    /\ Len(Contribution(i)) = 1
    /\ Contribution(i)[1].LoanType = cfg.patterns[2].label

\* C13: every row of results, matched row or Error row, carries the value
\* of timestamp, and timestamp is assigned once, when scrape_rates starts,
\* before the first source is processed: it never changes afterwards while
\* the clock goes on.
C13_OneTimestamp ==
    /\ [](\A a \in 1..Len(results) : results[a].Date = timestamp)
    /\ [][pc # "main" => timestamp' = timestamp]_vars
    /\ [][pc = "main" => timestamp' = clock /\ i' = 1 /\ results' = <<>>]_vars

\* matched rows of the first source and the Error row of the second, written
\* at different times, carry the same timestamp
C13_Witness ==
    /\ pc = "returned"
    /\ Len(MatchedRows(1)) = 2
    /\ Len(ErrorRows(2)) = 1
    /\ clock > timestamp + 1
    /\ \A a \in 1..Len(results) : results[a].Date = timestamp

-----------------------------------------------------------------------------
(* Properties of analyze_url *)

StripPercent(s) == SubSeq(s, 1, Len(s) - 1)

SameNumber(sample, written) == FloatEq(float(StripPercent(sample)), float(written))

PointsFirstText ==
    <<Term("Fixed 30", "exact"), Pct(<<"0", ".", "5", "0", "0">>),
      Pct(<<"6", ".", "0", "0", "0">>), Pct(<<"6", ".", "1", "2", "5">>)>>

\* C7 as stated: "Fixed 30" followed by 0.500%, 6.000%, 6.125% gives the
\* sample values rate "6.000%" and apr "6.125%".
C7_PointsFirstSkipped ==
    (sout.status = "config" /\ sout.target = PointsFirstText) =>
        /\ sout.labels[1].found
        /\ sout.labels[1].rate = <<"6", ".", "0", "0", "0", "%">>
        /\ sout.labels[1].apr = <<"6", ".", "1", "2", "5", "%">>

\* C7 amended: the second percentage is not below the first, so the first
\* two are taken: the sample values are rate "0.5%" and apr "6.0%" (0.500
\* and 6.000 as the code prints them), the pattern captures the first two
\* percentages after "Fixed 30", and 6.125% is not used.
C7_PointsFirstTaken ==
    (sout.status # "pending" /\ sout.why # "navigation"
        /\ spage.frames[1].text = PointsFirstText) =>
        /\ sout.status = "config"
        /\ sout.labels[1].found
        /\ sout.labels[1].rate = <<"0", ".", "5", "%">>
        /\ sout.labels[1].apr = <<"6", ".", "0", "%">>
        /\ sout.labels[1].pattern = Pattern("kw2", "Fixed 30")

C7_Witness ==
    /\ sout.status = "config"
    /\ spage.frames[1].text = PointsFirstText
    /\ sout.target = PointsFirstText

\* the host without a leading "www."
WithoutLeadingWww(host) ==
    IF At(host, Www, 1) THEN SubSeq(host, Len(Www) + 1, Len(host)) ELSE host

\* C14: the name of a returned config follows the chain: (1) the title up
\* to the first "|" or "-", trimmed, if it contains "bank" or "credit
\* union" in any case; (2) otherwise the first match of the name expression
\* in the main text, a phrase of the main text that starts with a capital
\* and ends in Bank or Credit Union; (3) otherwise the first label of the
\* URL host without a leading "www.", title-cased, followed by
\* " (Auto-named)".
C14_NameChain ==
    sout.status = "config" =>
        LET cut == strip(UpTo(spage.title, {"|", "-"}))
            main == spage.frames[1].text
        IN  IF LooksLikeBank(cut) THEN sout.name = cut
            ELSE IF name_match(main) # <<>>
            THEN /\ sout.name = strip(name_match(main))
                 /\ In(sout.name, Render(main))
                 /\ IsUpper(sout.name[1])
                 /\ \E e \in NameEndings :
                        At(sout.name, e, Len(sout.name) - Len(e) + 1)
            ELSE sout.name =
                    title(First(WithoutLeadingWww(netloc(sout.url)), "."))
                        \o AutoNamed

\* C8: a keyword followed by exactly two percentages r and a gives a
\* pattern for the loan type and the sample values r% and a% exactly as
\* written on the page.
C8_SamplesAsWritten ==
    LET text == spage.frames[1].text
    IN  (/\ sout.status # "pending"
         /\ sout.why # "navigation"
         /\ Len(text) = 3
         /\ text[1].k = "term"
         /\ text[2].k = "pct"
         /\ text[3].k = "pct") =>
            /\ sout.status = "config"
            /\ sout.labels[1].found
            /\ sout.labels[1].rate = Percent(text[2].d)
            /\ sout.labels[1].apr = Percent(text[3].d)

\* C15 as stated: when no keyword probe matches, a row made of the numeral,
\* optional words and exactly two percentages gives a pattern for the loan
\* type, with the first percentage as rate and the second as APR.
C15_TwoPercentRow ==
    LET text == spage.frames[1].text
        q == Len(text)
    IN  (/\ sout.status # "pending"
         /\ sout.why # "navigation"
         /\ Len(spage.frames) = 1
         /\ q \in {3, 4}
         /\ text[1] = Years("30")
         /\ q = 4 => text[2].k = "words"
         /\ text[q - 1].k = "pct"
         /\ text[q].k = "pct") =>
            /\ sout.status = "config"
            /\ sout.labels[1].found
            /\ sout.labels[1].pattern = Pattern("tbl2", "30")
            /\ SameNumber(sout.labels[1].rate, text[q - 1].d)
            /\ SameNumber(sout.labels[1].apr, text[q].d)

\* the keyword phrases that occur in a text, in any case
Synonyms(text) ==
    {t \in 1..Len(AllTerms) :
        \E a \in 1..Len(text) :
            /\ text[a].k = "term"
            /\ text[a].s = AllTerms[t]
            /\ text[a].d \in {<<"exact">>, <<"upper">>}}

\* C16: for a returned config, if the main text holds a synonym (in any
\* case) the target is the main text and the anchor is unset; otherwise, if
\* some frame whose text can be read holds a synonym, the target is the text
\* of the first such frame and the anchor is the first synonym of the
\* keyword table that the frame holds; otherwise the target is the main text
\* and the anchor is unset.
C16_AnchorLocalization ==
    sout.status = "config" =>
        LET frames == spage.frames
            main == frames[1].text
            holds == {k \in 1..Len(frames) :
                        frames[k].ok /\ Synonyms(frames[k].text) # {}}
        IN  IF Synonyms(main) # {} \/ holds = {}
            THEN sout.target = main /\ sout.iframe_check = ""
            ELSE /\ sout.target = frames[Min(holds)].text
                 /\ sout.iframe_check =
                        AllTerms[Min(Synonyms(frames[Min(holds)].text))]

\* the main text has rates in a table row but no synonym; the second of
\* three sub-frames is the first that holds one, written in capitals
C16_Witness ==
    /\ sout.status = "config"
    /\ Len(spage.frames) = 4
    /\ Synonyms(spage.frames[1].text) = {}
    /\ spage.frames[1].text # <<>>
    /\ sout.target = RatesUpper
    /\ sout.iframe_check = "30 Year Fixed"

\* C17: when analyze_url has taken a frame as target and stored an anchor,
\* the frame loop of scrape_rates, run with that anchor on the same page,
\* finds a frame, and its text is the target analyze_url used.
C17_FrameRoundTrip ==
    (sout.status = "config" /\ sout.iframe_check # "") =>
        /\ FirstFrame(spage.frames, sout.iframe_check) # 0
        /\ spage.frames[FirstFrame(spage.frames, sout.iframe_check)].text
              = sout.target

\* C18: for every loan type of a returned config, re.search of the stored
\* pattern in the target text matches, and its groups 1 and 2 are the sample
\* rate and APR as numbers.
C18_PatternRoundTrip ==
    sout.status = "config" =>
        \A n \in 1..Len(sout.labels) :
            sout.labels[n].found =>
                LET m == search(sout.labels[n].pattern, sout.target)
                IN  /\ m.res = "match"
                    /\ SameNumber(sout.labels[n].rate, m.g1)
                    /\ SameNumber(sout.labels[n].apr, m.g2)

-----------------------------------------------------------------------------
(* Properties of the config stores *)

NoDuplicates(stored) ==
    \A a, b \in 1..Len(stored) :
        a # b => stored[a].url # stored[b].url /\ stored[a].name # stored[b].name

\* C10: after any sequence of add-bank operations no config store holds two
\* configs with the same url or two configs with the same name.
C10_NoDuplicateConfigs ==
    NoDuplicates(sheetConfigs) /\ NoDuplicates(fileConfigs)

\* C11: a config with an empty patterns mapping is never persisted: every
\* analysis that comes back with a config has at least one pattern, every
\* config in the Configs sheet and in bank_configs.json has at least one
\* pattern, and an add-bank operation (dashboard form or command line) whose
\* analysis found a pattern for no loan type appends nothing to either store.
C11_EmptyNeverPersisted ==
    /\ [](/\ \A out \in Analyses :
                out.status = "config" => patterns(out) # <<>>
          /\ \A k \in 1..Len(sheetConfigs) : sheetConfigs[k].patterns # <<>>
          /\ \A k \in 1..Len(fileConfigs) : fileConfigs[k].patterns # <<>>)
    /\ [][lastAdd'.analysis = "nopatterns"
            => UNCHANGED <<sheetConfigs, fileConfigs>>]_vars

\* the command line was run on a page without rates after the form had saved
\* a config
C11_Witness ==
    /\ lastAdd.op = "cli"
    /\ lastAdd.analysis = "nopatterns"
    /\ lastAdd.outcome = "failed"
    /\ Len(sheetConfigs) = 1
    /\ fileConfigs = <<>>

\* C19: when every load_configs of the two sessions read the sheet, the
\* sessions, interleaved in any way, leave no two configs with the same url
\* or the same name in the Configs sheet.
C19_NoDuplicatesInterleaved ==
    (\A s \in Sessions : forms[s].loaded) => NoDuplicates(sheetConfigs)

\* C20: every row the form wrote to the Rates sheet is for a bank that has a
\* config in the Configs sheet, and after a reported success the last config
\* of the Configs sheet is that of the submitted URL.
C20_RatesOnlyIfSaved ==
    /\ \A k \in 2..Len(rates) :
            \E c \in 1..Len(sheetConfigs) : sheetConfigs[c].name = rates[k][2]
    /\ (lastAdd.op = "form" /\ lastAdd.outcome = "success") =>
            /\ sheetConfigs # <<>>
            /\ sheetConfigs[Len(sheetConfigs)].url = lastAdd.url
            /\ sheetConfigs[Len(sheetConfigs)].name = lastAdd.name

====
